---------------------------- MODULE Spec2Model ----------------------------
(***************************************************************************)
(* A model of the adaptive crawl scheduler of crawler/continuous_crawler.py *)
(* and crawler/branch_rating.py: the dedupe store, the backoff controller, *)
(* the branch stepper (crawl_branch) and the scheduler loop                *)
(* (run_continuous).                                                       *)
(*                                                                         *)
(* Text is modelled as a sequence of one-character strings, so that        *)
(* str.split, str.strip and str.lower are computed and not assumed.        *)
(* Python's None is the one-element sequence None below, which is no text  *)
(* (its element is not a single character).                                *)
(***************************************************************************)
EXTENDS Integers, Sequences, FiniteSets, TLC

VARIABLES
    \* what outlives the process
    dedupe,      \* the committed rows of table dedupe in DEDUPE_DB_PATH
    sink,        \* the lines of OUT_JSONL, one row each
    state_file,  \* STATE_PATH: NoFile, or File(state["branches"] as saved)
    catalog,     \* CATALOG_PATH: NoFile, or File(its "branches")
    now,         \* the clock, in ticks
    \* run_continuous
    pc,          \* where the process is: "start", "loop", "crawl", "fetch",
                 \* "extract", "append", "update", "stopped", "raised"
    max_cycles,  \* the --max-cycles argument, NoLimit for none
    conn,        \* DedupeStore.conn: "open" or "closed"
    backoff,     \* the BackoffController
    state,       \* state["branches"], the BranchState of each branch, in memory
    cycle,
    loop_error_streak,
    result,      \* what crawl_branch returned
    \* crawl_branch
    cb,          \* its arguments and locals
    \* history
    add_log,     \* the add_if_new calls made, [row, returned]
    backoff_log, \* the BackoffController calls made, [event, wait]
    faults,      \* the faults so far: kills of the process and passes that fail
                 \* with an exception other than a network error
    passes,      \* the passes of the scheduler loop over all processes
    net_errors   \* the requests.RequestException raised over all processes

vars == <<dedupe, sink, state_file, catalog, now, pc, max_cycles, conn, backoff, state,
          cycle, loop_error_streak, result, cb, add_log, backoff_log, faults, passes, net_errors>>

-----------------------------------------------------------------------------
(* Bounds of the model *)

\* add_if_new calls followed in the dedupe-store specification
MaxCalls == 3
\* reopenings of the store followed in the store specification
MaxReopens == 1
\* BackoffController calls followed in the backoff specification
MaxEvents == 8
\* passes of the scheduler loop followed, over all processes
MaxCycle == 3
\* passes of the loop followed where the lines of the sink are followed
MaxSinkCrawls == 2
\* the clock is followed up to this tick
MaxTime == 90
\* kills of the process and failing passes followed, over all processes
MaxFaults == 1
\* requests.RequestException raised, over all processes
MaxNetErrors == 3

-----------------------------------------------------------------------------
(* Text *)

None == <<"None">>

Whitespace == {" ", "\t", "\n"}

UpperCase == <<"A", "B", "C", "D", "E", "F", "G", "H", "I", "J", "K", "L", "M",
               "N", "O", "P", "Q", "R", "S", "T", "U", "V", "W", "X", "Y", "Z">>
LowerCase == <<"a", "b", "c", "d", "e", "f", "g", "h", "i", "j", "k", "l", "m",
               "n", "o", "p", "q", "r", "s", "t", "u", "v", "w", "x", "y", "z">>

\* str.lower, one character
LowerChar(c) ==
    IF \E i \in 1..Len(UpperCase) : UpperCase[i] = c
    THEN LowerCase[CHOOSE i \in 1..Len(UpperCase) : UpperCase[i] = c]
    ELSE c

\* str.lower
Lower(s) == [i \in 1..Len(s) |-> LowerChar(s[i])]

\* str.split(): the maximal runs of non-whitespace characters
RECURSIVE SplitFrom(_, _, _)
SplitFrom(s, i, word) ==
    IF i > Len(s)
    THEN IF word = <<>> THEN <<>> ELSE <<word>>
    ELSE IF s[i] \in Whitespace
         THEN IF word = <<>>
              THEN SplitFrom(s, i + 1, <<>>)
              ELSE <<word>> \o SplitFrom(s, i + 1, <<>>)
         ELSE SplitFrom(s, i + 1, Append(word, s[i]))

Split(s) == SplitFrom(s, 1, <<>>)

\* " ".join(words)
RECURSIVE JoinSpace(_)
JoinSpace(words) ==
    IF words = <<>> THEN <<>>
    ELSE IF Len(words) = 1 THEN words[1]
    ELSE words[1] \o <<" ">> \o JoinSpace(Tail(words))

\* str.strip()
RECURSIVE LStrip(_)
LStrip(s) ==
    IF s # <<>> /\ s[1] \in Whitespace THEN LStrip(Tail(s)) ELSE s

RECURSIVE RStrip(_)
RStrip(s) ==
    IF s # <<>> /\ s[Len(s)] \in Whitespace
    THEN RStrip(SubSeq(s, 1, Len(s) - 1))
    ELSE s

Strip(s) == RStrip(LStrip(s))

\* Python's "x or ''" on a text-or-None
OrEmpty(x) == IF x = None THEN <<>> ELSE x

\* Python's "x or None" on a text
OrNone(x) == IF x = <<>> THEN None ELSE x

\* _clean_text(s)
clean_text(s) ==
    IF s = None THEN None ELSE OrNone(Strip(JoinSpace(Split(s))))

\* _norm_for_key(s)
norm_for_key(s) == Lower(OrEmpty(clean_text(s)))

\* _dedupe_key(row)
dedupe_key_with_branche(row) ==
    LET addr == Strip(OrEmpty(row.street) \o <<" ">> \o OrEmpty(row.zip_city))
    IN  norm_for_key(row.branche) \o <<"|">> \o norm_for_key(row.name) \o <<"|">>
            \o norm_for_key(addr)

dedupe_key(row) ==
    LET addr == Strip(OrEmpty(row.street) \o <<" ">> \o OrEmpty(row.zip_city))
    IN  norm_for_key(row.name) \o <<"|">> \o norm_for_key(addr)

-----------------------------------------------------------------------------
(* Dictionaries and time *)

\* dict.get(k, default)
Get(d, k, default) == IF k \in DOMAIN d THEN d[k] ELSE default

\* d[k] = v
PutAlone(d, k, v) == [x \in {k} |-> v]

Put(d, k, v) == [x \in (DOMAIN d) \cup {k} |-> IF x = k THEN v ELSE d[x]]

EmptyDict == [x \in {} |-> 0]

\* a file that is not there, and a JSON file with its content
NoFile == [exists |-> FALSE]
File(content) == [exists |-> TRUE, content |-> content]

Min(a, b) == IF a < b THEN a ELSE b
Max(a, b) == IF a > b THEN a ELSE b

\* The clock counts ticks of half a second: the jitter of on_error,
\* random.uniform(0.0, 0.5), is 0 or 1 tick, and RETRY_SLEEP_SECONDS is 1 tick.
Seconds(n) == 2 * n

\* datetime.isoformat() with "+00:00" written as "Z": the text of a time
IsoFormat(t) == <<"Z", t>>

\* datetime.fromisoformat(ts.replace("Z", "+00:00")): the time of a text, or
\* ValueError for a text that is no ISO time
IsIsoText(ts) == Len(ts) = 2 /\ ts[1] = "Z"
FromIsoFormat(ts) == ts[2]

-----------------------------------------------------------------------------
(* BackoffController *)

MAX_DENIED_BACKOFF_SECONDS == 60
MAX_ERROR_BACKOFF_SECONDS == 300

\* BackoffController.__init__
NewBackoff == [denied_streak |-> 0, error_streak |-> 0, last_wait |-> 0]

\* BackoffController.on_success
on_success(bo) == [denied_streak |-> 0, error_streak |-> 0, last_wait |-> 0]

\* BackoffController.on_denied: the controller after it and the wait it slept
\* and returns, in ticks
on_denied_uncapped(bo) ==
    LET streak == bo.denied_streak + 1
        wait   == Seconds(2 ^ streak)
    IN  [backoff |-> [denied_streak |-> streak, error_streak |-> 0, last_wait |-> wait],
         wait |-> wait]

on_denied_of_new_controller(bo) ==
    [backoff |-> [denied_streak |-> 1, error_streak |-> 0, last_wait |-> Seconds(2)],
     wait |-> Seconds(2)]

on_denied(bo) ==
    LET streak == bo.denied_streak + 1
        wait   == Seconds(Min(MAX_DENIED_BACKOFF_SECONDS, 2 ^ streak))
    IN  [backoff |-> [denied_streak |-> streak, error_streak |-> 0, last_wait |-> wait],
         wait |-> wait]

\* BackoffController.on_error with random.uniform(0.0, 0.5) = jitter ticks
on_error(bo, jitter) ==
    LET streak == bo.error_streak + 1
        wait   == Seconds(Min(MAX_ERROR_BACKOFF_SECONDS, 2 ^ streak)) + jitter
    IN  [backoff |-> [denied_streak |-> bo.denied_streak, error_streak |-> streak,
                      last_wait |-> wait],
         wait |-> wait]

\* random.uniform(0.0, 0.5), in ticks
Jitter == {0, 1}

-----------------------------------------------------------------------------
(* branch_rating *)

KEYWORD_WEIGHTS ==
    << [key |-> <<"i", "n", "d", "u", "s", "t", "r", "i", "e">>, weight |-> 20],
       [key |-> <<"g", "r", "o", "A~", "Y:", "h", "a", "n", "d", "e", "l">>, weight |-> 18],
       [key |-> <<"g", "r", "o", "s", "s", "h", "a", "n", "d", "e", "l">>, weight |-> 18],
       [key |-> <<"h", "a", "n", "d", "e", "l">>, weight |-> 12],
       [key |-> <<"m", "a", "s", "c", "h", "i", "n", "e", "n">>, weight |-> 13],
       [key |-> <<"t", "e", "c", "h", "n", "i", "k">>, weight |-> 13],
       [key |-> <<"p", "h", "a", "r", "m", "a">>, weight |-> 20],
       [key |-> <<"c", "h", "e", "m", "i", "e">>, weight |-> 15],
       [key |-> <<"m", "e", "t", "a", "l", "l">>, weight |-> 14],
       [key |-> <<"e", "l", "e", "k", "t", "r", "o">>, weight |-> 14],
       [key |-> <<"i", "t">>, weight |-> 12],
       [key |-> <<"s", "o", "f", "t", "w", "a", "r", "e">>, weight |-> 12],
       [key |-> <<"m", "e", "d", "i", "z", "i", "n">>, weight |-> 14],
       [key |-> <<"e", "n", "e", "r", "g", "i", "e">>, weight |-> 14],
       [key |-> <<"t", "r", "a", "n", "s", "p", "o", "r", "t">>, weight |-> 12],
       [key |-> <<"b", "a", "u">>, weight |-> 11] >>

\* "key in text"
Contains(key, text) ==
    \E i \in 0..(Len(text) - Len(key)) : SubSeq(text, i + 1, i + Len(key)) = key

RECURSIVE SumWeights(_, _)
SumWeights(text, i) ==
    IF i > Len(KEYWORD_WEIGHTS) THEN 0
    ELSE (IF Contains(KEYWORD_WEIGHTS[i].key, text) THEN KEYWORD_WEIGHTS[i].weight ELSE 0)
         + SumWeights(text, i + 1)

\* _text_score(branche), in tenths
text_score(branche) == 10 + SumWeights(Lower(OrEmpty(branche)), 1)

\* The natural logarithm of num/den (num >= den > 0) in units of 1/100000, by
\* ln(m * 2^e) = e * ln 2 + 2 * (z + z^3/3 + z^5/5 + z^7/7), z = (m - 1)/(m + 1).
RECURSIVE LnE5(_, _)
LnE5(num, den) ==
    IF num >= 2 * den THEN 69315 + LnE5(num, 2 * den)
    ELSE LET z  == ((num - den) * 100000) \div (num + den)
             z2 == (z * z) \div 100000
             z3 == (z * z2) \div 100000
             z5 == (z3 * z2) \div 100000
             z7 == (z5 * z2) \div 100000
         IN  2 * z + (2 * z3) \div 3 + (2 * z5) \div 5 + (2 * z7) \div 7

\* math.log1p(num/den) in units of 1/10000, rounded
Log1pE4(num, den) == (LnE5(den + num, den) + 5) \div 10

\* _days_since(ts) as a fraction num/den of a day: the ticks since ts over
\* the ticks of a day, 365.0 for no or an unreadable timestamp
TicksPerDay == Seconds(86400)

days_since(ts, t) ==
    IF ts = None \/ ~IsIsoText(ts) THEN [num |-> 365, den |-> 1]
    ELSE [num |-> Max(0, t - FromIsoFormat(ts)), den |-> TicksPerDay]

\* _priority_score(branche, stats) at time t, in units of 1/10000
priority_score_no_floor(branche, stats, t) ==
    LET text        == text_score(branche)
        crawl_count == Max(0, Get(stats, "crawl_count", 0))
        last_days   == days_since(Get(stats, "last_crawled_at", None), t)
        last_rows   == Max(0, Get(stats, "last_rows", 0))
        freshness_boost == Min(30000, Log1pE4(last_days.num, last_days.den))
        yield_boost == Min(20000, Log1pE4(last_rows, 1) \div 3)
        denied_penalty == Min(7000, 1000 * Get(stats, "access_denied_count", 0))
    IN  (text * (10000 + freshness_boost + yield_boost) * 10) \div (100 + 35 * crawl_count)
            - denied_penalty

priority_score_no_penalty(branche, stats, t) ==
    LET text        == text_score(branche)
        crawl_count == Max(0, Get(stats, "crawl_count", 0))
        last_days   == days_since(Get(stats, "last_crawled_at", None), t)
        last_rows   == Max(0, Get(stats, "last_rows", 0))
        freshness_boost == Min(30000, Log1pE4(last_days.num, last_days.den))
        yield_boost == Min(20000, Log1pE4(last_rows, 1) \div 3)
    IN  Max(500,
            (text * (10000 + freshness_boost + yield_boost) * 10) \div (100 + 35 * crawl_count))

priority_score(branche, stats, t) ==
    LET text        == text_score(branche)
        crawl_count == Max(0, Get(stats, "crawl_count", 0))
        last_days   == days_since(Get(stats, "last_crawled_at", None), t)
        last_rows   == Max(0, Get(stats, "last_rows", 0))
        freshness_boost == Min(30000, Log1pE4(last_days.num, last_days.den))
        yield_boost == Min(20000, Log1pE4(last_rows, 1) \div 3)
        denied_penalty == Min(7000, 1000 * Get(stats, "access_denied_count", 0))
    IN  Max(500,
            (text * (10000 + freshness_boost + yield_boost) * 10) \div (100 + 35 * crawl_count)
                - denied_penalty)

\* rows.sort(key=score, reverse=True): stable, rows of equal score keep their order
RECURSIVE InsertByScoreBeforeEqual(_, _)
InsertByScoreBeforeEqual(sorted, row) ==
    IF sorted = <<>> THEN <<row>>
    ELSE IF row.score >= sorted[1].score THEN <<row>> \o sorted
    ELSE <<sorted[1]>> \o InsertByScoreBeforeEqual(Tail(sorted), row)

RECURSIVE InsertByScore(_, _)
InsertByScore(sorted, row) ==
    IF sorted = <<>> THEN <<row>>
    ELSE IF row.score > sorted[1].score THEN <<row>> \o sorted
    ELSE <<sorted[1]>> \o InsertByScore(Tail(sorted), row)

RECURSIVE SortByScoreFrom(_, _, _)
SortByScoreFrom(rows, i, sorted) ==
    IF i > Len(rows) THEN sorted
    ELSE SortByScoreFrom(rows, i + 1, InsertByScore(sorted, rows[i]))

SortByScoreNot(rows) == rows

SortByScore(rows) == SortByScoreFrom(rows, 1, <<>>)

\* generate_ratings(...)["ratings"] from the branches of the catalog and the
\* state file
generate_ratings(branches, file, t) ==
    LET branch_state == IF file.exists THEN file.content ELSE EmptyDict
        row(item) ==
            LET stats == Get(branch_state, item.branche, EmptyDict)
            IN  [branche |-> item.branche, url |-> item.url,
                 score |-> priority_score(item.branche, stats, t),
                 crawl_count |-> Get(stats, "crawl_count", 0),
                 last_rows |-> Get(stats, "last_rows", 0),
                 last_crawled_at |-> Get(stats, "last_crawled_at", None)]
    IN  SortByScore([i \in 1..Len(branches) |-> row(branches[i])])

-----------------------------------------------------------------------------
(* DedupeStore *)

\* INSERT INTO dedupe ... ; the PRIMARY KEY on dedupe_key makes sqlite raise
\* IntegrityError, and change nothing, when a row with the key exists.
SqlInsertNoPrimaryKey(table, rec) ==
    [error |-> "none", table |-> table \cup {rec}]

SqlInsert(table, rec) ==
    IF \E r \in table : r.dedupe_key = rec.dedupe_key
    THEN [error |-> "IntegrityError", table |-> table]
    ELSE [error |-> "none", table |-> table \cup {rec}]

\* DedupeStore.add_if_new(row) on the committed table: what it returns and the
\* table after its commit.
add_if_new_without_commit(table, row) ==
    [returned |-> ~(\E r \in table : r.dedupe_key = dedupe_key(row)), table |-> table]

add_if_new(table, row) ==
    LET key == dedupe_key(row)
        ins == SqlInsert(table,
                   [dedupe_key |-> key, branche |-> row.branche, name |-> row.name,
                    street |-> row.street, zip_city |-> row.zip_city])
    IN  IF ins.error = "none"
        THEN [returned |-> TRUE, table |-> ins.table]
        ELSE [returned |-> FALSE, table |-> table]

\* DedupeStore.__init__ on an existing file: CREATE TABLE IF NOT EXISTS keeps
\* the rows that are there.
OpenTableRecreated(table) == {}

OpenTable(table) == table


-----------------------------------------------------------------------------
(* The site *)

MAX_RETRIES == 3
\* 500 in the source; the model follows the loop of crawl_branch with this
\* many load-more clicks allowed
MAX_LOAD_MORE_CLICKS == 2

\* The listing cards of the modelled pages: the texts of the detail link, of
\* the street node and of the place node, None for a node the card lacks.
Card(name, street, place) == [name |-> name, street |-> street, place |-> place]

CardAcme      == Card(<<"A", "b">>, <<"x">>, <<"y">>)
CardAcmeLoud  == Card(<<"A", "B", " ">>, <<"x">>, <<" ", "y">>)
CardAcmeLong  == Card(<<"a", "b">>, <<"x", " ", " ", "y">>, None)
CardOther     == Card(<<"b">>, <<"x">>, <<"y">>)

\* A response body: the cards it lists, whether it shows the load-more
\* control (_has_load_more), whether its form#aspnetForm has fields to echo
\* (_parse_form_fields), whether its text holds "access denied".
Body(cards, load_more, fields, marker) ==
    [cards |-> cards, load_more |-> load_more, fields |-> fields, marker |-> marker]

PageOne    == Body(<<CardAcme, CardAcmeLoud>>, TRUE, TRUE, FALSE)
PageTwo    == Body(<<CardOther, CardAcmeLong>>, TRUE, TRUE, FALSE)
PageLast   == Body(<<CardOther>>, FALSE, TRUE, FALSE)
PageNoForm == Body(<<>>, TRUE, FALSE, FALSE)
EmptyBody  == Body(<<>>, FALSE, FALSE, FALSE)
DeniedBody == Body(<<>>, FALSE, FALSE, TRUE)

\* What the server may answer to a request
Responses ==
    { [status_code |-> 200, text |-> PageOne],
      [status_code |-> 200, text |-> PageTwo],
      [status_code |-> 200, text |-> PageLast],
      [status_code |-> 200, text |-> PageNoForm],
      [status_code |-> 200, text |-> EmptyBody],
      [status_code |-> 200, text |-> DeniedBody],
      [status_code |-> 403, text |-> EmptyBody],
      [status_code |-> 500, text |-> PageLast] }

\* What it answers where the scheduler loop is followed over several passes
FewResponses ==
    { [status_code |-> 200, text |-> PageLast],
      [status_code |-> 403, text |-> EmptyBody] }

\* What it answers where the lines of the sink are followed over several crawls
ListingResponses ==
    { [status_code |-> 200, text |-> PageOne],
      [status_code |-> 200, text |-> PageTwo],
      [status_code |-> 200, text |-> PageLast] }

\* The ticks one request attempt may take, the politeness delay of
\* before_request (0.15 s to 0.30 s) counted with the attempt after it
AttemptTicks == {0, 1}

\* and where the scheduler loop is followed over several passes
FewTicks == {1}

\* RETRY_SLEEP_SECONDS = 0.5, in ticks
RETRY_SLEEP_TICKS == 1

\* The catalogs discover_branches may write, and the one already there
BranchBau == <<"B", "a", "u">>
BranchIT  == <<"I", "T">>
TwoBranches == << [branche |-> BranchBau, url |-> "bau"], [branche |-> BranchIT, url |-> "it"] >>
OneBranch == << [branche |-> BranchIT, url |-> "it"] >>
Catalogs == { TwoBranches, OneBranch, <<>> }

\* max_cycles=None
NoLimit == -1
MaxCyclesArgs == { NoLimit, 2 }

-----------------------------------------------------------------------------
(* crawl_branch *)

\* _extract_cards_and_soup(html, branche, base_url)[0]
extract_cards(html, branche) ==
    [i \in 1..Len(html.cards) |->
        [branche  |-> branche,
         name     |-> clean_text(html.cards[i].name),
         street   |-> clean_text(html.cards[i].street),
         zip_city |-> clean_text(html.cards[i].place)]]

\* for row in rows: if dedupe_store.add_if_new(row): new_rows.append(row)
RECURSIVE AddRows(_, _, _, _)
AddRows(table, rows, i, new_rows) ==
    IF i > Len(rows) THEN [table |-> table, new_rows |-> new_rows]
    ELSE LET r == add_if_new(table, rows[i])
         IN  AddRows(r.table, rows, i + 1,
                     IF r.returned THEN Append(new_rows, rows[i]) ELSE new_rows)

\* resp.status_code == 403 or "access denied" in body.lower()
IsDeniedOnlyBy403(resp) == resp.status_code = 403

IsDenied(resp) == resp.status_code = 403 \/ resp.text.marker

\* lines 454-455: if body == html: break
SameBodyNever(body, html) == FALSE

SameBody(body, html) == body = html

\* line 402: for _ in range(MAX_LOAD_MORE_CLICKS + 1), after iteration
\* number `iteration` (from 0) another one follows
WithinStepBudgetAlways(iteration) == TRUE

WithinStepBudget(iteration) == iteration + 1 <= MAX_LOAD_MORE_CLICKS

\* line 308: for attempt in range(1, MAX_RETRIES + 1), after a failed attempt
\* another one follows
MoreAttemptsNever(attempt) == FALSE

MoreAttempts(attempt) == attempt < MAX_RETRIES

\* no response yet
NoResponse == [status_code |-> 0, text |-> EmptyBody]

\* The locals of crawl_branch at its first statement
NewCall(branche, url) ==
    [branche |-> branche, start_url |-> url, inserted |-> 0, load_more_steps |-> 0,
     access_denied |-> FALSE, t0 |-> now, html |-> EmptyBody, method |-> "GET",
     attempt |-> 0, iteration |-> 0, new_rows |-> <<>>,
     \* history of this call
     sink0 |-> Len(sink), dedupe0 |-> dedupe, requests |-> 0, extracts |-> <<>>,
     posts |-> <<>>, get_response |-> NoResponse, on_denied_calls |-> 0,
     on_error_calls |-> 0, upsert_errors |-> 0, before_requests |-> 0]

NoCall == [branche |-> None]

\* the dicts crawl_branch returns
ResultErrorFromStart(c, wait) ==
    [inserted |-> 0, steps |-> 0, access_denied |-> FALSE,
     transient_error |-> TRUE, waited_s |-> wait]

ResultError(c, wait) ==
    [inserted |-> c.inserted, steps |-> c.load_more_steps, access_denied |-> FALSE,
     transient_error |-> TRUE, waited_s |-> wait]

ResultDenied(c, wait) ==
    [inserted |-> c.inserted, steps |-> c.load_more_steps, access_denied |-> TRUE,
     waited_s |-> wait]

ResultDoneAsError(c) ==
    [inserted |-> c.inserted, steps |-> c.load_more_steps, access_denied |-> c.access_denied,
     transient_error |-> TRUE, waited_s |-> Seconds(10)]

ResultDone(c) ==
    [inserted |-> c.inserted, steps |-> c.load_more_steps, access_denied |-> c.access_denied,
     transient_error |-> FALSE, waited_s |-> 0]

NoResult == EmptyDict

-----------------------------------------------------------------------------
(* run_continuous *)

\* _select_next_branch(state, ratings) at time now: <<row>>, or <<>> for None
RECURSIVE select_from(_, _, _, _)
select_from(branches_state, ratings, i, t) ==
    IF i > Len(ratings) THEN <<>>
    ELSE LET stats        == Get(branches_state, ratings[i].branche, EmptyDict)
             next_allowed == Get(stats, "next_allowed_at", None)
         IN  IF /\ next_allowed # None
                /\ next_allowed # <<>>
                /\ IsIsoText(next_allowed)
                /\ FromIsoFormat(next_allowed) > t
             THEN select_from(branches_state, ratings, i + 1, t)
             ELSE <<ratings[i]>>

select_first_row(branches_state, ratings, t) ==
    IF ratings = <<>> THEN <<>> ELSE <<ratings[1]>>

select_without_clock(branches_state, ratings, t) ==
    select_from(branches_state, ratings, 1, -1)

select_next_branch(branches_state, ratings, t) ==
    select_from(branches_state, ratings, 1, t)

\* lines 528-545: the BranchState of the crawled branch after a crawl
UpdatedStatsNoWait(st, res, t) ==
    LET st1 == Put(st, "crawl_count", Get(st, "crawl_count", 0) + 1)
        st2 == Put(st1, "last_rows", res.inserted)
        st3 == Put(st2, "total_rows_inserted",
                   Get(st, "total_rows_inserted", 0) + res.inserted)
        st4 == Put(st3, "last_steps", res.steps)
        st5 == Put(st4, "last_crawled_at", IsoFormat(t))
    IN  IF res.access_denied
        THEN Put(Put(st5, "access_denied_count", Get(st, "access_denied_count", 0) + 1),
                 "next_allowed_at", IsoFormat(t))
        ELSE IF Get(res, "transient_error", FALSE)
        THEN Put(Put(st5, "error_count", Get(st, "error_count", 0) + 1),
                 "next_allowed_at", IsoFormat(t))
        ELSE Put(st5, "next_allowed_at", None)

UpdatedStats(st, res, t) ==
    LET st1 == Put(st, "crawl_count", Get(st, "crawl_count", 0) + 1)
        st2 == Put(st1, "last_rows", res.inserted)
        st3 == Put(st2, "total_rows_inserted",
                   Get(st, "total_rows_inserted", 0) + res.inserted)
        st4 == Put(st3, "last_steps", res.steps)
        st5 == Put(st4, "last_crawled_at", IsoFormat(t))
        wait_s == IF res.waited_s = 0 THEN Seconds(10) ELSE res.waited_s
    IN  IF res.access_denied
        THEN Put(Put(st5, "access_denied_count", Get(st, "access_denied_count", 0) + 1),
                 "next_allowed_at", IsoFormat(t + wait_s))
        ELSE IF Get(res, "transient_error", FALSE)
        THEN Put(Put(st5, "error_count", Get(st, "error_count", 0) + 1),
                 "next_allowed_at", IsoFormat(t + wait_s))
        ELSE Put(st5, "next_allowed_at", None)

\* _load_json(STATE_PATH, default)["branches"]
LoadState(file) == IF file.exists THEN file.content ELSE EmptyDict

InMemoryAtStart ==
    /\ pc = "start"
    /\ conn = "closed"
    /\ backoff = NewBackoff
    /\ state = EmptyDict
    /\ cycle = 0
    /\ loop_error_streak = 0
    /\ result = NoResult
    /\ cb = NoCall

\* The first process starts on empty data files, with one of the catalog
\* files and one of the --max-cycles arguments given
InitWith(catalog_files, max_cycles_args) ==
    /\ dedupe = {}
    /\ sink = <<>>
    /\ state_file = NoFile
    /\ catalog \in catalog_files
    /\ now = 0
    /\ max_cycles \in max_cycles_args
    /\ InMemoryAtStart
    /\ add_log = <<>>
    /\ backoff_log = <<>>
    /\ faults = 0
    /\ passes = 0
    /\ net_errors = 0

Init == InitWith({File(c) : c \in Catalogs} \cup {NoFile}, MaxCyclesArgs)

\* lines 488-506: the process starts
Startup ==
    /\ pc = "start"
    /\ \/ catalog.exists /\ UNCHANGED catalog
       \/ \* discover_branches()
          ~catalog.exists /\ catalog' \in {File(c) : c \in Catalogs}
    /\ conn' = "open"
    /\ dedupe' = OpenTable(dedupe)
    /\ backoff' = NewBackoff
    /\ state' = LoadState(state_file)
    /\ cycle' = 0
    /\ loop_error_streak' = 0
    /\ pc' = "loop"
    /\ UNCHANGED <<sink, state_file, now, max_cycles, result, cb, add_log, backoff_log,
                   faults, passes, net_errors>>

\* lines 559-568: the except clause of the loop, entered with the in-memory
\* state st. _save_json in it may raise as well, and then nothing catches it:
\* the finally clause closes the store and run_continuous raises.
HandleException(st) ==
    LET streak == loop_error_streak + 1
        wait_s == Seconds(Min(MAX_ERROR_BACKOFF_SECONDS, 2 ^ Min(streak, 10)))
    IN  /\ faults < MaxFaults
        /\ loop_error_streak' = streak
        /\ state' = st
        /\ \/ \E jitter \in Jitter :
                /\ now + wait_s + jitter <= MaxTime
                /\ state_file' = File(st)
                /\ now' = now + wait_s + jitter
                /\ pc' = "loop"
                /\ conn' = conn
                /\ faults' = faults + 1
           \/ /\ state_file' = state_file
              /\ now' = now
              /\ pc' = "raised"
              /\ conn' = "closed"
              /\ faults' = faults + 1

\* lines 510-526: one pass of the loop up to the call of crawl_branch
Cycle(max_passes) ==
    /\ pc = "loop"
    /\ passes < max_passes
    /\ passes' = passes + 1
    /\ cycle' = cycle + 1
    /\ \/ \* generate_ratings raises
          /\ HandleException(state)
          /\ UNCHANGED <<cb>>
       \/ LET ratings  == generate_ratings(catalog.content, state_file, now)
              selected == select_next_branch(state, ratings, now)
          IN  /\ IF ratings = <<>>
                 THEN /\ now + Seconds(30) <= MaxTime
                      /\ now' = now + Seconds(30)
                      /\ UNCHANGED <<pc, cb>>
                 ELSE IF selected = <<>>
                 THEN /\ now + Seconds(20) <= MaxTime
                      /\ now' = now + Seconds(20)
                      /\ UNCHANGED <<pc, cb>>
                 ELSE /\ cb' = NewCall(selected[1].branche, selected[1].url)
                      /\ pc' = "crawl"
                      /\ UNCHANGED now
              /\ UNCHANGED <<state, state_file, loop_error_streak, conn, faults>>
    /\ UNCHANGED <<dedupe, sink, catalog, max_cycles, backoff, result, add_log,
                   backoff_log, net_errors>>

\* lines 374-379: crawl_branch up to the first request
BeforeGet ==
    /\ pc = "crawl"
    /\ cb' = [cb EXCEPT !.method = "GET", !.attempt = 1, !.before_requests = @ + 1]
    /\ pc' = "fetch"
    /\ UNCHANGED <<dedupe, sink, state_file, catalog, now, max_cycles, conn, backoff, state,
                   cycle, loop_error_streak, result, add_log, backoff_log, faults, passes, net_errors>>

\* crawl_branch returns res to line 526
Return(c, res) ==
    /\ cb' = c
    /\ result' = res
    /\ pc' = "update"

\* One attempt of _fetch_with_retry and, when it ends the request, what
\* crawl_branch does with the outcome (lines 382-401 after a GET, lines 431-457
\* after a POST) up to its next Extract or its return.
FetchAttempt(responses, ticks) ==
    /\ pc = "fetch"
    /\ \E took \in ticks :
         LET c == [cb EXCEPT !.requests = @ + 1]
             got(resp) == IF cb.method = "GET" THEN [c EXCEPT !.get_response = resp] ELSE c
         IN
         \/ \* requests.RequestException, and another attempt follows
            /\ MoreAttempts(cb.attempt)
            /\ net_errors < MaxNetErrors
            /\ net_errors' = net_errors + 1
            /\ now + took + RETRY_SLEEP_TICKS <= MaxTime
            /\ now' = now + took + RETRY_SLEEP_TICKS
            /\ cb' = [c EXCEPT !.attempt = @ + 1]
            /\ UNCHANGED <<pc, result, backoff>>
         \/ \* requests.RequestException in the last attempt: raise last_exc
            /\ ~MoreAttempts(cb.attempt)
            /\ net_errors < MaxNetErrors
            /\ net_errors' = net_errors + 1
            /\ \E jitter \in Jitter :
                 LET e == on_error(backoff, jitter)
                 IN  /\ now + took + e.wait <= MaxTime
                     /\ now' = now + took + e.wait
                     /\ backoff' = e.backoff
                     /\ Return([c EXCEPT !.on_error_calls = @ + 1], ResultError(c, e.wait))
         \/ \* a response
            \E resp \in responses :
                /\ UNCHANGED net_errors
                /\ IF IsDenied(resp)
                   THEN LET d == on_denied(backoff)
                        IN  /\ now + took + d.wait <= MaxTime
                            /\ now' = now + took + d.wait
                            /\ backoff' = d.backoff
                            /\ Return([got(resp) EXCEPT !.access_denied = TRUE,
                                                           !.on_denied_calls = @ + 1],
                                      ResultDenied(c, d.wait))
                   ELSE /\ now + took <= MaxTime
                        /\ now' = now + took
                        /\ backoff' = on_success(backoff)
                        /\ IF cb.method = "GET"
                           THEN /\ cb' = [got(resp) EXCEPT !.html = resp.text, !.iteration = 0]
                                /\ pc' = "extract"
                                /\ UNCHANGED result
                           ELSE LET p == [c EXCEPT !.posts = Append(@, resp.text)]
                                IN  IF SameBody(resp.text, cb.html)
                                    THEN Return(p, ResultDone(p))
                                    ELSE IF WithinStepBudget(cb.iteration)
                                    THEN /\ cb' = [p EXCEPT !.html = resp.text, !.iteration = @ + 1]
                                         /\ pc' = "extract"
                                         /\ UNCHANGED result
                                    ELSE Return([p EXCEPT !.html = resp.text], ResultDone(p))
    /\ UNCHANGED <<dedupe, sink, state_file, catalog, max_cycles, conn, state, cycle,
                   loop_error_streak, add_log, backoff_log, faults, passes>>

\* lines 403-407: the cards of the page and their add_if_new calls
Extract ==
    /\ pc = "extract"
    /\ LET r == AddRows(dedupe, extract_cards(cb.html, cb.branche), 1, <<>>)
       IN  /\ dedupe' = r.table
           /\ cb' = [cb EXCEPT !.new_rows = r.new_rows, !.extracts = Append(@, cb.html)]
    /\ pc' = "append"
    /\ UNCHANGED <<sink, state_file, catalog, now, max_cycles, conn, backoff, state, cycle,
                   loop_error_streak, result, add_log, backoff_log, faults, passes, net_errors>>

\* lines 409-416: the locals after the upsert of the new rows, which is
\* skipped without new rows or without a client, and whose exception is
\* logged and dropped
UpsertedUncounted(c, outcome) ==
    [c EXCEPT !.upsert_errors = @ + (IF outcome = "raised" THEN 1 ELSE 0),
              !.inserted = @ + (IF outcome = "raised" THEN 0 ELSE Len(c.new_rows)),
              !.load_more_steps = @ + 1,
              !.new_rows = <<>>]

Upserted(c, outcome) ==
    [c EXCEPT !.upsert_errors = @ + (IF outcome = "raised" THEN 1 ELSE 0),
              !.inserted = @ + Len(c.new_rows),
              !.load_more_steps = @ + 1,
              !.new_rows = <<>>]

\* what _upsert_rows_to_supabase does: without a client, and with one
NoClient == {"skipped"}
WithClient == {"ok", "raised"}

\* lines 408-428: the new rows go to the sink and to the external sink, then
\* the continuation check and, with a load-more control and a form,
\* before_request for the POST
AppendRows(upserts) ==
    /\ pc = "append"
    /\ sink' = sink \o cb.new_rows
    /\ \E outcome \in (IF cb.new_rows = <<>> THEN {"skipped"} ELSE upserts) :
       LET c == Upserted(cb, outcome)
       IN  IF ~cb.html.load_more \/ ~cb.html.fields
           THEN /\ Return(c, ResultDone(c))
                /\ UNCHANGED now
           ELSE /\ cb' = [c EXCEPT !.method = "POST", !.attempt = 1,
                                    !.before_requests = @ + 1]
                /\ pc' = "fetch"
                /\ UNCHANGED <<now, result>>
    /\ UNCHANGED <<dedupe, state_file, catalog, max_cycles, conn, backoff, state, cycle,
                   loop_error_streak, add_log, backoff_log, faults, passes, net_errors>>

\* an exception other than requests.RequestException leaves crawl_branch
\* (sqlite3 or the file system failing in lines 403-408)
CrawlRaises ==
    /\ pc \in {"extract", "append"}
    /\ HandleException(state)
    /\ cb' = NoCall
    /\ UNCHANGED <<dedupe, sink, catalog, max_cycles, backoff, cycle, result, add_log,
                   backoff_log, passes, net_errors>>

\* lines 528-558: the BranchState of the crawled branch, the save, the
\* max_cycles check
UpdateState ==
    /\ pc = "update"
    /\ LET st  == UpdatedStats(Get(state, cb.branche, EmptyDict), result, now)
           new == Put(state, cb.branche, st)
       IN  \/ /\ state' = new
              /\ state_file' = File(new)
              /\ loop_error_streak' = 0
              /\ IF max_cycles # NoLimit /\ cycle >= max_cycles
                 THEN pc' = "stopped" /\ conn' = "closed"
                 ELSE pc' = "loop" /\ conn' = conn
              /\ UNCHANGED <<now, faults>>
           \/ \* _save_json raises
              HandleException(new)
    /\ cb' = NoCall
    /\ result' = NoResult
    /\ UNCHANGED <<dedupe, sink, catalog, max_cycles, backoff, cycle, add_log, backoff_log,
                   passes, net_errors>>

\* the process is killed, or has ended, and is started again later
Kill ==
    /\ pc # "start"
    /\ faults < MaxFaults
    /\ faults' = faults + 1
    /\ pc' = "start"
    /\ conn' = "closed"
    /\ backoff' = NewBackoff
    /\ state' = EmptyDict
    /\ cycle' = 0
    /\ loop_error_streak' = 0
    /\ result' = NoResult
    /\ cb' = NoCall
    /\ UNCHANGED <<dedupe, sink, state_file, catalog, now, max_cycles, add_log, backoff_log,
                   passes, net_errors>>

\* The scheduler over several passes, on a site of few answers
Next ==
    \/ Startup
    \/ Cycle(MaxCycle)
    \/ BeforeGet
    \/ FetchAttempt(FewResponses, FewTicks)
    \/ Extract
    \/ AppendRows(NoClient)
    \/ CrawlRaises
    \/ UpdateState
    \/ Kill

Spec == Init /\ [][Next]_vars

\* One crawl_branch call on the whole site: the first pass of a process run
\* with --max-cycles 1 has selected a branch, on a controller that has seen
\* no denial yet or two of them in earlier calls
RECURSIVE DeniedTimes(_)
DeniedTimes(n) == IF n = 0 THEN NewBackoff ELSE on_denied(DeniedTimes(n - 1)).backoff

InitStepper ==
    /\ dedupe = {}
    /\ sink = <<>>
    /\ state_file = NoFile
    /\ catalog = File(TwoBranches)
    /\ now = 0
    /\ max_cycles = 1
    /\ pc = "crawl"
    /\ conn = "open"
    /\ backoff \in {DeniedTimes(0), DeniedTimes(2)}
    /\ state = EmptyDict
    /\ cycle = 1
    /\ loop_error_streak = 0
    /\ result = NoResult
    /\ \E i \in 1..Len(TwoBranches) : cb = NewCall(TwoBranches[i].branche, TwoBranches[i].url)
    /\ add_log = <<>>
    /\ backoff_log = <<>>
    /\ faults = 0
    /\ passes = 1
    /\ net_errors = 0

NextStepper ==
    \/ BeforeGet
    \/ FetchAttempt(Responses, AttemptTicks)
    \/ Extract
    \/ AppendRows(WithClient)
    \/ CrawlRaises
    \/ UpdateState

SpecStepper == InitStepper /\ [][NextStepper]_vars

\* The crawls of several passes and processes on the listing pages
NextSink ==
    \/ Startup
    \/ Cycle(MaxSinkCrawls)
    \/ BeforeGet
    \/ FetchAttempt(ListingResponses, FewTicks)
    \/ Extract
    \/ AppendRows(NoClient)
    \/ CrawlRaises
    \/ UpdateState
    \/ Kill

InitSink == InitWith({File(TwoBranches)}, {NoLimit})

SpecSink == InitSink /\ [][NextSink]_vars

-----------------------------------------------------------------------------
(* The dedupe store on its own: any add_if_new calls, with the store closed *)
(* and opened again on the same path in between.                          *)

Txt_Ab     == <<"A", "b">>
Txt_ab     == <<"a", "b">>
Txt_AB_ws  == <<" ", "A", "B", "\t">>
Txt_b      == <<"b">>
Txt_x      == <<"x">>
Txt_y      == <<"y">>
Txt_y_ws   == <<" ", "y">>
Txt_x_y    == <<"x", " ", "y">>

Row(name, street, zip_city) ==
    [branche |-> <<"b">>, name |-> name, street |-> street, zip_city |-> zip_city]

\* (name, street, zip_city) combinations handed to add_if_new
StoreRows ==
    { Row(Txt_Ab, Txt_x, Txt_y),          \* ab|x y
      Row(Txt_ab, Txt_x_y, None),         \* ab|x y, the street holds it all
      Row(Txt_AB_ws, Txt_x, Txt_y_ws),    \* ab|x y, case and whitespace
      Row(Txt_Ab, None, Txt_y),           \* ab|y
      Row(Txt_Ab, Txt_y, <<>>),           \* ab|y
      Row(Txt_b, Txt_x, Txt_y),           \* b|x y
      Row(None, None, None),              \* |
      Row(<<>>, <<" ">>, <<>>) }          \* |

\* what the store specifications leave alone
Idle ==
    /\ sink = <<>>
    /\ state_file = NoFile
    /\ catalog = NoFile
    /\ now = 0
    /\ pc = "start"
    /\ max_cycles = NoLimit
    /\ state = EmptyDict
    /\ cycle = 0
    /\ loop_error_streak = 0
    /\ result = NoResult
    /\ cb = NoCall
    /\ faults = 0
    /\ passes = 0
    /\ net_errors = 0

idleVars == <<sink, state_file, catalog, now, pc, max_cycles, state, cycle,
              loop_error_streak, result, cb, faults, passes, net_errors>>

StoreInit ==
    /\ dedupe = {}
    /\ conn = "open"
    /\ add_log = <<>>
    /\ backoff = NewBackoff
    /\ backoff_log = <<>>
    /\ Idle

\* the add_if_new calls among the entries of add_log
IsCall(e) == e.op = "add_if_new"
Calls == SelectSeq(add_log, IsCall)

\* one DedupeStore.add_if_new(row) call
AddIfNewCall ==
    /\ conn = "open"
    /\ Len(Calls) < MaxCalls
    /\ \E row \in StoreRows :
         LET r == add_if_new(dedupe, row)
         IN  /\ dedupe' = r.table
             /\ add_log' = Append(add_log, [op |-> "add_if_new", row |-> row,
                                            returned |-> r.returned])
    /\ UNCHANGED <<conn, backoff, backoff_log, idleVars>>

\* DedupeStore.close(), or the process ending
CloseStore ==
    /\ conn = "open"
    /\ Len(add_log) - Len(Calls) < MaxReopens
    /\ conn' = "closed"
    /\ UNCHANGED <<dedupe, add_log, backoff, backoff_log, idleVars>>

\* DedupeStore(path) on the same path
ReopenStore ==
    /\ conn = "closed"
    /\ conn' = "open"
    /\ dedupe' = OpenTable(dedupe)
    /\ add_log' = Append(add_log, [op |-> "open", row |-> Row(None, None, None),
                                   returned |-> FALSE])
    /\ UNCHANGED <<backoff, backoff_log, idleVars>>

StoreNext == AddIfNewCall \/ CloseStore \/ ReopenStore

SpecStore == StoreInit /\ [][StoreNext]_vars

-----------------------------------------------------------------------------
(* The BackoffController on its own: any on_denied, on_success and on_error *)
(* calls on one controller.                                                 *)

BackoffInit == StoreInit

OnDeniedCall ==
    /\ Len(backoff_log) < MaxEvents
    /\ LET d == on_denied(backoff)
       IN  /\ backoff' = d.backoff
           /\ backoff_log' = Append(backoff_log, [event |-> "on_denied", wait |-> d.wait])
    /\ UNCHANGED <<dedupe, conn, add_log, idleVars>>

OnSuccessCall ==
    /\ Len(backoff_log) < MaxEvents
    /\ backoff' = on_success(backoff)
    /\ backoff_log' = Append(backoff_log, [event |-> "on_success", wait |-> 0])
    /\ UNCHANGED <<dedupe, conn, add_log, idleVars>>

OnErrorCall ==
    /\ Len(backoff_log) < MaxEvents
    /\ \E jitter \in Jitter :
         LET e == on_error(backoff, jitter)
         IN  /\ backoff' = e.backoff
             /\ backoff_log' = Append(backoff_log, [event |-> "on_error", wait |-> e.wait])
    /\ UNCHANGED <<dedupe, conn, add_log, idleVars>>

BackoffNext == OnDeniedCall \/ OnSuccessCall \/ OnErrorCall

SpecBackoff == BackoffInit /\ [][BackoffNext]_vars

-----------------------------------------------------------------------------
(* C1: over any add_if_new calls with the store closed and reopened in      *)
(* between, a call returns true exactly when no earlier call had a row of   *)
(* the same DedupeKey (so at most once per key, on the first call), and the *)
(* store then holds exactly one row for every key that was handed to it.    *)
C1_AddIfNewOncePerKey ==
    /\ \A j \in 1..Len(Calls) :
         Calls[j].returned =
             ~ \E i \in 1..(j - 1) :
                   dedupe_key(Calls[i].row) = dedupe_key(Calls[j].row)
    /\ \A j \in 1..Len(Calls) :
         Cardinality({r \in dedupe : r.dedupe_key = dedupe_key(Calls[j].row)}) = 1

\* the same combination twice with the store reopened in between, then a
\* different combination of the same key
C1_Witness ==
    /\ Len(add_log) = 4
    /\ IsCall(add_log[1]) /\ ~IsCall(add_log[2]) /\ IsCall(add_log[3]) /\ IsCall(add_log[4])
    /\ add_log[1].row = add_log[3].row
    /\ add_log[4].row # add_log[1].row
    /\ dedupe_key(add_log[4].row) = dedupe_key(add_log[1].row)
    /\ add_log[1].returned /\ ~add_log[3].returned /\ ~add_log[4].returned
    /\ Cardinality(dedupe) = 1

-----------------------------------------------------------------------------
(* C2: over the crawls of several passes, branches and processes, no         *)
(* DedupeKey is on more than one line of the sink; a line of the sink is the *)
(* row the store keeps for its key, the first one processed; and what a      *)
(* crawl_branch call counts in inserted is what it appended to the sink.     *)
C2_SinkKeysUnique ==
    /\ \A i \in 1..Len(sink) : \A j \in 1..Len(sink) :
         dedupe_key(sink[i]) = dedupe_key(sink[j]) => i = j
    /\ \A i \in 1..Len(sink) :
         \E r \in dedupe :
            /\ r.dedupe_key = dedupe_key(sink[i])
            /\ r.branche = sink[i].branche /\ r.name = sink[i].name
            /\ r.street = sink[i].street /\ r.zip_city = sink[i].zip_city
    /\ pc \in {"fetch", "extract", "append", "update"} =>
         cb.inserted = Len(sink) - cb.sink0
    /\ pc = "update" => result.inserted = cb.inserted

\* a second process has crawled another branch than the one the first line of
\* the sink is from: it met two cards of one key on its first page, met the
\* first page and a third of that key, otherwise written, on its second, met
\* a card the other branch had already brought in, met the first page again
\* after a load-more, and appended only the first card of the new key
C2_Witness ==
    /\ pc = "update"
    /\ passes = 2 /\ cycle = 1
    /\ sink # <<>>
    /\ sink[1].branche # cb.branche
    /\ cb.sink0 >= 1
    /\ cb.extracts = <<PageOne, PageTwo, PageOne>>
    /\ \E i \in 1..cb.sink0 : dedupe_key(sink[i]) = dedupe_key(extract_cards(PageTwo, cb.branche)[1])
    /\ result.inserted = 1
    /\ Len(sink) = cb.sink0 + 1
    /\ sink[Len(sink)].name = clean_text(CardAcme.name)

-----------------------------------------------------------------------------
(* C5: of on_denied calls that follow one another with no other call in     *)
(* between, the first of them made on a new controller or right after an    *)
(* on_success, the k-th returns min(MAX_DENIED_BACKOFF_SECONDS, 2^k)        *)
(* seconds; so the first after an on_success returns 2 again. The waits of  *)
(* on_denied calls that follow one another never decrease, and no on_denied *)
(* returns more than MAX_DENIED_BACKOFF_SECONDS.                            *)
C5_DeniedWaits ==
    /\ \A i \in 1..Len(backoff_log) : \A j \in i..Len(backoff_log) :
         (/\ i = 1 \/ backoff_log[i - 1].event = "on_success"
          /\ \A m \in i..j : backoff_log[m].event = "on_denied")
         => backoff_log[j].wait = Seconds(Min(MAX_DENIED_BACKOFF_SECONDS, 2 ^ (j - i + 1)))
    /\ \A j \in 2..Len(backoff_log) :
         (backoff_log[j - 1].event = "on_denied" /\ backoff_log[j].event = "on_denied")
         => backoff_log[j - 1].wait <= backoff_log[j].wait
    /\ \A j \in 1..Len(backoff_log) :
         backoff_log[j].event = "on_denied"
         => backoff_log[j].wait <= Seconds(MAX_DENIED_BACKOFF_SECONDS)

\* six denials in a row, the sixth at the cap, then an on_success and a denial
C5_Witness ==
    /\ Len(backoff_log) = 8
    /\ \A m \in 1..6 : backoff_log[m].event = "on_denied"
    /\ backoff_log[5].wait = Seconds(32)
    /\ backoff_log[6].wait = Seconds(MAX_DENIED_BACKOFF_SECONDS)
    /\ backoff_log[7].event = "on_success"
    /\ backoff_log[8].event = "on_denied"
    /\ backoff_log[8].wait = Seconds(2)

-----------------------------------------------------------------------------
(* C6: the denial streak and the error streak reset one another: never are  *)
(* both non-zero, a denial right after an error returns the first denial    *)
(* wait, and an error right after a denial returns the first error wait     *)
(* (plus jitter).                                                           *)
C6_StreaksMutuallyReset ==
    /\ ~ (backoff.denied_streak > 0 /\ backoff.error_streak > 0)
    /\ \A j \in 2..Len(backoff_log) :
         /\ (backoff_log[j - 1].event = "on_error" /\ backoff_log[j].event = "on_denied")
            => backoff_log[j].wait = Seconds(2)
         /\ (backoff_log[j - 1].event = "on_denied" /\ backoff_log[j].event = "on_error")
            => backoff_log[j].wait \in {Seconds(2) + jitter : jitter \in Jitter}

-----------------------------------------------------------------------------
\* a branch is cooling down: its next_allowed_at is a timestamp later than t
Cooling(branche, t) ==
    LET next_allowed == Get(Get(state, branche, EmptyDict), "next_allowed_at", None)
    IN  next_allowed # None /\ FromIsoFormat(next_allowed) > t

\* what generate_ratings gives the pass that starts now
RatingsNow == generate_ratings(catalog.content, state_file, now)

(* C3: the branch crawl_branch is called with is never one whose            *)
(* next_allowed_at is later than the time of the call.                      *)
C3_CoolingNeverCrawled ==
    pc = "crawl" => ~Cooling(cb.branche, now)

\* crawl_branch is called with the second branch of the ratings because the
\* first one, of the higher score, is cooling down
C3_Witness ==
    /\ pc = "crawl"
    /\ Len(RatingsNow) = 2
    /\ Cooling(RatingsNow[1].branche, now)
    /\ RatingsNow[1].score > RatingsNow[2].score
    /\ cb.branche = RatingsNow[2].branche

(* C4: a pass that gets its ratings calls crawl_branch with the first row   *)
(* of the ratings that is not cooling down, which no other such row         *)
(* outscores; it calls crawl_branch unless every rated branch is cooling    *)
(* down, and then it leaves the BranchState, in memory and in the file, as  *)
(* it was and comes back to the start of the loop.                          *)
C4_SelectsBestEligible ==
    [][ (pc = "loop" /\ passes' = passes + 1 /\ loop_error_streak' = loop_error_streak)
        => LET eligible == {i \in 1..Len(RatingsNow) : ~Cooling(RatingsNow[i].branche, now)}
           IN  /\ (pc' = "crawl") <=> (eligible # {})
               /\ pc' = "crawl" =>
                    \E i \in eligible :
                       /\ cb'.branche = RatingsNow[i].branche
                       /\ cb'.start_url = RatingsNow[i].url
                       /\ \A j \in eligible : i <= j /\ RatingsNow[j].score <= RatingsNow[i].score
               /\ eligible = {} =>
                    /\ pc' = "loop"
                    /\ state' = state /\ state_file' = state_file
                    /\ cb' = cb /\ result' = result
                    /\ dedupe' = dedupe /\ sink' = sink ]_vars

\* the only branch of the catalog was crawled in the first pass and denied;
\* the second pass found it cooling down, slept and crawled nothing
C4_Witness ==
    /\ pc = "loop"
    /\ catalog = File(OneBranch)
    /\ passes = 2 /\ cycle = 2 /\ faults = 0
    /\ Get(Get(state, BranchIT, EmptyDict), "crawl_count", 0) = 1
    /\ Get(Get(state, BranchIT, EmptyDict), "access_denied_count", 0) = 1
    /\ Cooling(BranchIT, now - Seconds(20))

-----------------------------------------------------------------------------
(* C7: an exception raised in a pass of the loop is caught there: it is     *)
(* followed by a sleep of at most MAX_ERROR_BACKOFF_SECONDS plus jitter and *)
(* by the next pass, and run_continuous neither returns nor raises.         *)
C7_LoopSurvivesException ==
    [][ loop_error_streak' = loop_error_streak + 1
        => /\ pc' = "loop"
           /\ conn' = "open"
           /\ now' > now
           /\ \E jitter \in Jitter :
                now' - now <= Seconds(MAX_ERROR_BACKOFF_SECONDS) + jitter ]_vars

-----------------------------------------------------------------------------
\* crawl_branch has been called and the loop has not yet gone on from its result
InCall == pc \in {"crawl", "fetch", "extract", "append", "update"}

(* C8: crawl_branch stops at the first POST whose response body is the body *)
(* it extracted last; so when every POST of a call was answered with the    *)
(* same body, the call made at most two POSTs and extracted that body at    *)
(* most once.                                                               *)
C8_LoopGuard ==
    InCall =>
      /\ \A m \in 1..Len(cb.posts) :
           cb.posts[m] = cb.extracts[m]
           => /\ m = Len(cb.posts) /\ m = Len(cb.extracts)
              /\ pc = "update"
              /\ result = ResultDone(cb)
      /\ (cb.posts # <<>> /\ \A m \in 1..Len(cb.posts) : cb.posts[m] = cb.posts[1])
         => /\ Len(cb.posts) <= 2
            /\ Cardinality({m \in 1..Len(cb.extracts) : cb.extracts[m] = cb.posts[1]}) <= 1

\* the GET brought the first page, both POSTs the second: the call extracted
\* the second page once and returned after the second POST
C8_Witness ==
    /\ pc = "update"
    /\ cb.extracts = <<PageOne, PageTwo>>
    /\ cb.posts = <<PageTwo, PageTwo>>
    /\ result.steps = 2
    /\ ~result.access_denied

-----------------------------------------------------------------------------
\* A per-branch time budget, in ticks; the source names none
TimeBudget == 2

(* C9: no crawl_branch call starts an Extract iteration after the          *)
(* per-branch time budget has elapsed since the call began.                 *)
C9_NoIterationPastBudget ==
    pc = "extract" => now - cb.t0 <= TimeBudget

-----------------------------------------------------------------------------
(* C10: when the response to the first GET has status 403 or holds the      *)
(* denial marker, crawl_branch has called on_denied once, has extracted     *)
(* nothing, has left the dedupe store and the sink as they were, has made   *)
(* no request after that GET, and has returned access_denied = true,        *)
(* inserted = 0, steps = 0 and the wait of on_denied as waited_s.           *)
C10_DeniedAtFirstGet ==
    (InCall /\ (cb.get_response.status_code = 403 \/ cb.get_response.text.marker))
    => /\ pc = "update"
       /\ cb.on_denied_calls = 1
       /\ cb.on_error_calls = 0
       /\ cb.extracts = <<>>
       /\ dedupe = cb.dedupe0
       /\ Len(sink) = cb.sink0
       /\ cb.method = "GET" /\ cb.requests = cb.attempt
       /\ cb.posts = <<>>
       /\ result.access_denied
       /\ result.inserted = 0
       /\ result.steps = 0
       /\ result.waited_s = backoff.last_wait
       /\ result.waited_s =
            Seconds(Min(MAX_DENIED_BACKOFF_SECONDS, 2 ^ backoff.denied_streak))
       /\ backoff.denied_streak >= 1

\* on a controller that had seen two denials the GET was answered, at its
\* second attempt, with status 200 and a body that holds the denial marker
C10_Witness ==
    /\ pc = "update"
    /\ cb.get_response = [status_code |-> 200, text |-> DeniedBody]
    /\ cb.requests = 2
    /\ result.access_denied
    /\ backoff.denied_streak = 3
    /\ result.waited_s = Seconds(8)

-----------------------------------------------------------------------------
\* a field of the BranchState of a branch in the in-memory state st
Stat(st, branche, field, default) == Get(Get(st, branche, EmptyDict), field, default)

(* C11: the step that follows a return of crawl_branch adds 1 to the        *)
(* crawl_count of the crawled branch and makes one of three updates: after  *)
(* a denial access_denied_count + 1 and next_allowed_at = now + waited_s;   *)
(* after a transient error error_count + 1 and next_allowed_at = now +      *)
(* waited_s; otherwise next_allowed_at = None and both failure counters as  *)
(* they were. The two failure counters never both grow in one step.         *)
C11_UpdateAfterCrawl ==
    [][ (pc = "update" /\ pc' # "start")
        => LET b          == cb.branche
               denied     == result.access_denied
               transient  == ~denied /\ Get(result, "transient_error", FALSE)
               old(f)     == Stat(state, b, f, 0)
               new(f)     == Stat(state', b, f, 0)
               next_allowed == Stat(state', b, "next_allowed_at", <<>>)
           IN  /\ new("crawl_count") = old("crawl_count") + 1
               /\ new("access_denied_count") =
                      old("access_denied_count") + (IF denied THEN 1 ELSE 0)
               /\ new("error_count") = old("error_count") + (IF transient THEN 1 ELSE 0)
               /\ next_allowed =
                      IF denied \/ transient THEN IsoFormat(now + result.waited_s) ELSE None
               /\ (denied \/ transient) => result.waited_s > 0 ]_vars

\* one branch was denied at its first crawl and is cooling down for the wait
\* of on_denied, the other was crawled to the end and may be crawled again
C11_Witness ==
    /\ pc = "loop" /\ faults = 0
    /\ Stat(state, BranchIT, "crawl_count", 0) = 1
    /\ Stat(state, BranchIT, "access_denied_count", 0) = 1
    /\ Stat(state, BranchIT, "error_count", 0) = 0
    /\ Stat(state, BranchIT, "next_allowed_at", <<>>) =
          IsoFormat(FromIsoFormat(Stat(state, BranchIT, "last_crawled_at", <<>>)) + Seconds(2))
    /\ Stat(state, BranchBau, "crawl_count", 0) = 1
    /\ Stat(state, BranchBau, "total_rows_inserted", 0) = 1
    /\ Stat(state, BranchBau, "next_allowed_at", <<>>) = None

-----------------------------------------------------------------------------
(* C12: when the response to the GET has a status that is neither 200 nor   *)
(* 403, crawl_branch has called on_error and not on_success, has extracted  *)
(* nothing and has returned transient_error = true.                         *)
C12_OtherStatusIsTransientError ==
    (InCall /\ cb.get_response.status_code \notin {0, 200, 403}
            /\ ~cb.get_response.text.marker)
    => /\ pc = "update"
       /\ cb.on_error_calls = 1
       /\ cb.extracts = <<>>
       /\ Get(result, "transient_error", FALSE)

-----------------------------------------------------------------------------
(* C13: when the last attempt of a GET or POST of crawl_branch fails with a  *)
(* network error, crawl_branch calls on_error once and returns               *)
(* transient_error = true, access_denied = false, waited_s = the wait of     *)
(* that on_error call, and inserted and steps as accumulated so far; after   *)
(* that return the call sends no further request.                            *)
NetworkFailure ==
    pc = "fetch" /\ cb.attempt = MAX_RETRIES /\ net_errors' = net_errors + 1

C13_NetworkErrorEndsCall ==
    [][ /\ NetworkFailure =>
              /\ pc' = "update"
              /\ cb'.on_error_calls = cb.on_error_calls + 1
              /\ cb'.on_error_calls = 1
              /\ cb'.on_denied_calls = 0
              /\ \E jitter \in Jitter :
                    /\ backoff' = on_error(backoff, jitter).backoff
                    /\ result' = [inserted |-> cb.inserted,
                                  steps |-> cb.load_more_steps,
                                  access_denied |-> FALSE,
                                  transient_error |-> TRUE,
                                  waited_s |-> on_error(backoff, jitter).wait]
              /\ (cb.method = "GET") => (result'.inserted = 0 /\ result'.steps = 0)
        /\ (pc = "update" /\ cb.on_error_calls = 1) =>
              /\ pc' \in {"update", "loop", "stopped", "raised"}
              /\ cb' = NoCall \/ cb'.requests = cb.requests ]_vars

\* a POST failed after a page with one new record
C13_Witness ==
    /\ pc = "update"
    /\ cb.method = "POST"
    /\ cb.on_error_calls = 1
    /\ cb.requests = 1 + MAX_RETRIES
    /\ result.transient_error
    /\ result.inserted = 1
    /\ result.steps = 1
    /\ result.waited_s = backoff.last_wait

-----------------------------------------------------------------------------
(* C14: when crawl_branch has returned after a page with a load-more control *)
(* but no form fields, or after a postback with an empty body, its result    *)
(* has access_denied = false, transient_error = false and waited_s = 0, it   *)
(* has called neither on_denied nor on_error, and the scheduler then sets    *)
(* next_allowed_at to None and leaves access_denied_count and error_count.   *)
MalformedPagination ==
    /\ pc = "update"
    /\ cb.extracts # <<>>
    /\ \/ LET page == cb.extracts[Len(cb.extracts)]
          IN  page.load_more /\ ~page.fields
       \/ cb.posts # <<>> /\ cb.posts[Len(cb.posts)] = EmptyBody

C14_MalformedPaginationIsDone ==
    [][ MalformedPagination =>
          LET b == cb.branche
          IN  /\ result = [inserted |-> cb.inserted, steps |-> cb.load_more_steps,
                           access_denied |-> FALSE, transient_error |-> FALSE,
                           waited_s |-> 0]
              /\ cb.on_denied_calls = 0
              /\ cb.on_error_calls = 0
              /\ Stat(state', b, "next_allowed_at", <<>>) = None
              /\ Stat(state', b, "access_denied_count", 0)
                    = Stat(state, b, "access_denied_count", 0)
              /\ Stat(state', b, "error_count", 0) = Stat(state, b, "error_count", 0)
              /\ Stat(state', b, "crawl_count", 0) = Stat(state, b, "crawl_count", 0) + 1
      ]_vars

\* the postback after a page of records came back empty
C14_Witness ==
    /\ pc = "update"
    /\ cb.posts = <<EmptyBody>>
    /\ Len(cb.extracts) = 2
    /\ cb.extracts[1].load_more
    /\ result.steps = 2
    /\ result.inserted = 1
    /\ ~result.transient_error

-----------------------------------------------------------------------------
(* C15: when run_continuous has stopped on max_cycles = N, the process has   *)
(* completed exactly N crawl_branch calls: passes without a crawl do not     *)
(* count toward N.                                                           *)
\* The crawls this process has completed. While cycle = passes every pass so
\* far belongs to this process, which then started on an empty crawl state,
\* so that the crawl counts of its state are its own crawls.
CrawlsOfProcess ==
    Stat(state, BranchBau, "crawl_count", 0) + Stat(state, BranchIT, "crawl_count", 0)

C15_StopsAfterMaxCyclesCrawls ==
    (pc = "stopped" /\ cycle = passes) => CrawlsOfProcess = max_cycles

-----------------------------------------------------------------------------
(* C16: no step of run_continuous writes the catalog file, and a process     *)
(* that starts without a catalog file fails at startup: it does not get into *)
(* the scheduler loop.                                                       *)
C16_CatalogReadOnly ==
    [][ /\ catalog' = catalog
        /\ (pc = "start" /\ ~catalog.exists) => pc' \in {"start", "raised"} ]_vars

-----------------------------------------------------------------------------
(* C17: no step removes the entry of a branch from the crawl state, in the   *)
(* memory of the running process or in the state file, or lowers its         *)
(* crawl_count, total_rows_inserted, access_denied_count or error_count; the *)
(* crawl state of the process changes only in the step that follows the      *)
(* return of crawl_branch, and then only in the entry of the crawled branch. *)
Counters == {"crawl_count", "total_rows_inserted", "access_denied_count", "error_count"}

NothingLost(old, new) ==
    \A b \in DOMAIN old :
        /\ b \in DOMAIN new
        /\ \A f \in Counters : Stat(new, b, f, 0) >= Stat(old, b, f, 0)

C17_StateGrowsOnlyAfterCrawl ==
    [][ /\ NothingLost(LoadState(state_file), LoadState(state_file'))
        /\ (pc # "start" /\ pc' # "start") =>
              /\ NothingLost(state, state')
              /\ (state' # state) =>
                    /\ pc = "update"
                    /\ \A b \in DOMAIN state' :
                          b # cb.branche => (b \in DOMAIN state /\ state'[b] = state[b])
      ]_vars

\* three crawls over both branches, all of them saved
C17_Witness ==
    /\ pc = "loop"
    /\ DOMAIN state = {BranchBau, BranchIT}
    /\ CrawlsOfProcess = 3
    /\ state_file = File(state)

-----------------------------------------------------------------------------
(* C18: when the upsert of a batch of new rows into the external sink        *)
(* raises, crawl_branch still adds the rows of the batch to inserted, to the *)
(* record sink and leaves them in the dedupe store, goes on with the         *)
(* continuation check (the POST for the next page, or the return), and a     *)
(* call that returns without a denial or a network error reports             *)
(* access_denied = false and transient_error = false.                        *)
UpsertRaised ==
    pc = "append" /\ cb' # NoCall /\ cb'.upsert_errors = cb.upsert_errors + 1

C18_UpsertFailureDoesNotAbort ==
    [][ /\ UpsertRaised =>
              /\ cb.new_rows # <<>>
              /\ cb'.inserted = cb.inserted + Len(cb.new_rows)
              /\ cb'.load_more_steps = cb.load_more_steps + 1
              /\ sink' = sink \o cb.new_rows
              /\ dedupe' = dedupe
              /\ \A i \in 1..Len(cb.new_rows) :
                    \E r \in dedupe' : r.dedupe_key = dedupe_key(cb.new_rows[i])
              /\ IF cb.html.load_more /\ cb.html.fields
                 THEN pc' = "fetch" /\ cb'.method = "POST" /\ cb'.attempt = 1
                 ELSE pc' = "update" /\ result' = ResultDone(cb')
        /\ (pc = "update" /\ cb.upsert_errors > 0) =>
              /\ result.inserted = Len(sink) - cb.sink0
              /\ result.inserted = cb.inserted
              /\ result.access_denied = (cb.on_denied_calls > 0)
              /\ Get(result, "transient_error", FALSE) = (cb.on_error_calls > 0)
      ]_vars

\* the upserts of both pages raised, and the call ended as Done with the
\* records of both pages
C18_Witness ==
    /\ pc = "update"
    /\ cb.upsert_errors = 2
    /\ Len(cb.extracts) = 2
    /\ result.inserted = 2
    /\ Len(sink) = 2
    /\ ~result.access_denied
    /\ ~result.transient_error

-----------------------------------------------------------------------------
(* generate_ratings and _select_next_branch as functions of their inputs:    *)
(* one call of each on a catalog of one or two branches, a state file with   *)
(* any BranchState of the first branch, and the same for the second, or     *)
(* none, and a first branch that is cooling down or not,                     *)
(* up to some hours after the last crawl.                                  *)
BranchKino   == <<"K", "i", "n", "o">>
BranchPharma == <<"P", "h", "a", "r", "m", "a", " ", "I", "n", "d", "u", "s", "t", "r", "i", "e">>
BranchZoo    == <<"Z", "o", "o">>
RatedNames == {BranchKino, BranchBau, BranchIT, BranchPharma}
RatedCatalogs ==
    {<<b>> : b \in RatedNames}
        \cup {<<BranchKino, BranchZoo>>, <<BranchZoo, BranchKino>>,
              <<BranchKino, BranchPharma>>, <<BranchIT, BranchBau>>}

RatedStats ==
    [crawl_count : {0, 1, 55, 200},
     last_rows : {0, 3, 1000},
     access_denied_count : {0, 1, 7, 9},
     last_crawled_at : {None, IsoFormat(0)}]

RatingTimes == {0, Seconds(3600), Seconds(10000)}

RatingInit ==
    /\ dedupe = {}
    /\ sink = <<>>
    /\ max_cycles = NoLimit
    /\ conn = "closed"
    /\ backoff = NewBackoff
    /\ cycle = 0
    /\ loop_error_streak = 0
    /\ cb = NoCall
    /\ add_log = <<>>
    /\ backoff_log = <<>>
    /\ faults = 0
    /\ passes = 0
    /\ net_errors = 0
    /\ pc = "rate"
    /\ result = NoResult
    /\ now \in RatingTimes
    /\ \E names \in RatedCatalogs :
          /\ catalog = File([k \in 1..Len(names) |-> [branche |-> names[k], url |-> "u"]])
          /\ state_file \in
                {NoFile}
                  \cup {File(Put(EmptyDict, names[1], stats)) : stats \in RatedStats}
                  \cup {File([b \in {names[k] : k \in 1..Len(names)} |-> stats]) :
                           stats \in RatedStats}
          /\ LET loaded == LoadState(state_file)
                 first  == Get(loaded, names[1], EmptyDict)
             IN  state \in {loaded,
                            Put(loaded, names[1],
                                Put(first, "next_allowed_at", IsoFormat(Seconds(20000))))}

\* the payload generate_ratings returns
GenerateRatings ==
    /\ pc = "rate"
    /\ result' = [generated_at |-> now,
                  ratings |-> generate_ratings(catalog.content, state_file, now)]
    /\ pc' = "rated"
    /\ UNCHANGED <<dedupe, sink, state_file, catalog, now, max_cycles, conn, backoff, state,
                   cycle, loop_error_streak, cb, add_log, backoff_log, faults, passes,
                   net_errors>>

\* _select_next_branch(state, ratings) on these ratings
SelectNext ==
    /\ pc = "rated"
    /\ cb' = [selected |-> select_next_branch(state, result.ratings, now)]
    /\ pc' = "selected"
    /\ UNCHANGED <<dedupe, sink, state_file, catalog, now, max_cycles, conn, backoff, state,
                   cycle, loop_error_streak, result, add_log, backoff_log, faults, passes,
                   net_errors>>

RatingNext == GenerateRatings \/ SelectNext

SpecRating == RatingInit /\ [][RatingNext]_vars

\* the BranchState generate_ratings read for the branch of a rating row
RatedState(row) == Get(LoadState(state_file), row.branche, EmptyDict)

(* C19: every score generate_ratings reports is at least 0.05, for every     *)
(* branch name and every BranchState, also with the denied penalty at its    *)
(* cap of 0.7.                                                               *)
C19_ScoreAtLeastFloor ==
    pc = "rated" =>
        \A i \in 1..Len(result.ratings) :
            /\ result.ratings[i].score >= 500
            /\ result.ratings[i].score
                  = priority_score(result.ratings[i].branche,
                                   RatedState(result.ratings[i]), result.generated_at)

\* a branch without keyword, crawled 200 times and denied 9 times, is rated
\* at the floor
C19_Witness ==
    /\ pc = "rated"
    /\ state_file.exists
    /\ Len(result.ratings) = 1
    /\ result.ratings[1].branche = BranchKino
    /\ RatedState(result.ratings[1]).crawl_count = 200
    /\ RatedState(result.ratings[1]).access_denied_count = 9
    /\ result.ratings[1].score = 500

-----------------------------------------------------------------------------
\* the BranchState that differs from stats in access_denied_count = 0 alone
Undenied(stats) == Put(stats, "access_denied_count", 0)

\* the rating rows of branches whose BranchState has access_denied_count = 1
FirstDenialRows ==
    {i \in 1..Len(result.ratings) :
        Get(RatedState(result.ratings[i]), "access_denied_count", 0) = 1}

UndeniedScore(row) ==
    priority_score(row.branche, Undenied(RatedState(row)), result.generated_at)

(* C20: the score reported for a branch with access_denied_count = 1 is      *)
(* strictly lower than the score of the same branch name with a BranchState  *)
(* that differs in access_denied_count = 0 alone.                            *)
C20_FirstDenialRatesLower ==
    pc = "rated" =>
        \A i \in FirstDenialRows :
            result.ratings[i].score < UndeniedScore(result.ratings[i])

(* C20, amended: the score reported for a branch with access_denied_count =  *)
(* 1 is never higher than the score with access_denied_count = 0 and all     *)
(* else equal, and strictly lower whenever the latter is above the floor of  *)
(* 0.05; with the latter at the floor both scores are 0.05.                  *)
C20_FirstDenialRatesLowerAboveFloor ==
    pc = "rated" =>
        \A i \in FirstDenialRows :
            LET undenied == UndeniedScore(result.ratings[i])
                denied   == result.ratings[i].score
            IN  /\ denied <= undenied
                /\ undenied > 500 => denied < undenied
                /\ undenied = 500 => denied = 500

\* a branch denied at its first crawl, rated 0.1 lower, above the floor
C20_Witness ==
    /\ pc = "rated"
    /\ FirstDenialRows = {1}
    /\ RatedState(result.ratings[1]).crawl_count = 1
    /\ RatedState(result.ratings[1]).last_rows = 0
    /\ result.ratings[1].score > 500
    /\ result.ratings[1].score = UndeniedScore(result.ratings[1]) - 1000

-----------------------------------------------------------------------------
(* C21: one crawl_branch call extracts at most MAX_LOAD_MORE_CLICKS + 1      *)
(* pages and reports at most that many steps, sends its GET only before the  *)
(* first page and at most MAX_LOAD_MORE_CLICKS + 1 POST requests, each of at *)
(* most MAX_RETRIES attempts, whatever the server answers.                   *)
C21_StepBudget ==
    (InCall /\ cb # NoCall) =>
        /\ Len(cb.extracts) <= MAX_LOAD_MORE_CLICKS + 1
        /\ cb.load_more_steps <= MAX_LOAD_MORE_CLICKS + 1
        /\ Len(cb.posts) <= MAX_LOAD_MORE_CLICKS + 1
        /\ Len(cb.posts) <= cb.load_more_steps
        /\ cb.iteration <= MAX_LOAD_MORE_CLICKS
        /\ cb.attempt <= MAX_RETRIES
        /\ cb.requests <= MAX_RETRIES * (MAX_LOAD_MORE_CLICKS + 2)
        /\ (pc = "fetch" /\ cb.method = "GET") => (cb.extracts = <<>> /\ cb.posts = <<>>)
        /\ (pc = "update") => result.steps <= MAX_LOAD_MORE_CLICKS + 1

\* a call that used the whole budget: every page had a load-more control and
\* every postback brought another page
C21_Witness ==
    /\ pc = "update"
    /\ Len(cb.extracts) = MAX_LOAD_MORE_CLICKS + 1
    /\ Len(cb.posts) = MAX_LOAD_MORE_CLICKS + 1
    /\ result.steps = MAX_LOAD_MORE_CLICKS + 1

-----------------------------------------------------------------------------
\* the place of the branch of a rating row in the catalog
CatalogPlace(row) ==
    CHOOSE k \in 1..Len(catalog.content) : catalog.content[k].branche = row.branche

(* C22: the rows generate_ratings returns are one per catalog branch, in     *)
(* non-increasing order of score, rows of equal score in catalog order; the  *)
(* row _select_next_branch returns is a branch that is not cooling down, and *)
(* every other such branch has a lower score, or the same score and a later  *)
(* place in the catalog.                                                     *)
C22_SortedStableSelection ==
    (pc \in {"rated", "selected"} /\ result # NoResult) =>
        LET rows == result.ratings
        IN  /\ Len(rows) = Len(catalog.content)
            /\ \A i, j \in 1..Len(rows) :
                  i < j => \/ rows[i].score > rows[j].score
                           \/ /\ rows[i].score = rows[j].score
                              /\ CatalogPlace(rows[i]) < CatalogPlace(rows[j])
            /\ (pc = "selected") =>
                  IF \A i \in 1..Len(rows) : Cooling(rows[i].branche, now)
                  THEN cb.selected = <<>>
                  ELSE /\ Len(cb.selected) = 1
                       /\ \E i \in 1..Len(rows) : rows[i] = cb.selected[1]
                       /\ ~Cooling(cb.selected[1].branche, now)
                       /\ \A i \in 1..Len(rows) :
                             \/ Cooling(rows[i].branche, now)
                             \/ rows[i].score < cb.selected[1].score
                             \/ /\ rows[i].score = cb.selected[1].score
                                /\ CatalogPlace(cb.selected[1]) <= CatalogPlace(rows[i])

\* two branches of equal score, and the one that is first in the catalog,
\* though later in the alphabet, is selected
C22_Witness ==
    /\ pc = "selected"
    /\ Len(result.ratings) = 2
    /\ result.ratings[1].score = result.ratings[2].score
    /\ catalog.content[1].branche = BranchZoo
    /\ state_file.exists
    /\ cb.selected # <<>>
    /\ cb.selected[1].branche = BranchZoo

-----------------------------------------------------------------------------
(* C23: every request attempt crawl_branch has sent, the retries of a failed *)
(* GET or POST included, was preceded by a before_request call of its own:   *)
(* there are never more attempts than before_request calls.                  *)
C23_EveryAttemptPaced ==
    (InCall /\ cb # NoCall) => cb.requests <= cb.before_requests

-----------------------------------------------------------------------------
(* C24: the streaks of the one BackoffController of a process run over the   *)
(* branches: a denial adds one to the denial streak the earlier calls left   *)
(* and returns min(60, 2^streak) seconds, so that in a process whose crawls  *)
(* so far were all denied, the denial of the k-th crawl waits min(60, 2^k)   *)
(* whatever branches were crawled; a response that is not a denial sets both *)
(* streaks to 0.                                                             *)
DenialsOfProcess ==
    Stat(state, BranchBau, "access_denied_count", 0)
        + Stat(state, BranchIT, "access_denied_count", 0)

C24_StreaksAreGlobal ==
    [][ /\ (pc = "fetch" /\ pc' = "update" /\ result'.access_denied) =>
              /\ backoff'.denied_streak = backoff.denied_streak + 1
              /\ result'.waited_s
                    = Seconds(Min(MAX_DENIED_BACKOFF_SECONDS, 2 ^ backoff'.denied_streak))
              /\ (faults = 0 /\ cb.extracts = <<>> /\ CrawlsOfProcess = DenialsOfProcess) =>
                    result'.waited_s
                       = Seconds(Min(MAX_DENIED_BACKOFF_SECONDS, 2 ^ (CrawlsOfProcess + 1)))
        /\ (pc = "fetch" /\ net_errors' = net_errors /\ cb' # NoCall
                /\ cb'.on_denied_calls = cb.on_denied_calls) =>
              (backoff'.denied_streak = 0 /\ backoff'.error_streak = 0)
        /\ (pc # "fetch" /\ pc # "start" /\ pc' # "start") => backoff' = backoff
      ]_vars

\* the first crawl of the second branch is denied after the first crawl of
\* the first one was, and waits 4 seconds
C24_Witness ==
    /\ pc = "update"
    /\ faults = 0
    /\ result.access_denied
    /\ result.waited_s = Seconds(4)
    /\ Stat(state, cb.branche, "crawl_count", 0) = 0
    /\ DenialsOfProcess = 1

-----------------------------------------------------------------------------
\* the keys of the records in the sink, and of the rows a table holds
SinkKeys(lines) == {dedupe_key(lines[i]) : i \in 1..Len(lines)}
TableKeys(table) == {r.dedupe_key : r \in table}

\* the keys crawl_branch has committed and not yet appended
PendingKeys(p, c) == IF p = "append" THEN SinkKeys(c.new_rows) ELSE {}

(* C25: the keys of the records in the sink are always keys of the dedupe    *)
(* store; a key in the store that is neither in the sink nor among the rows  *)
(* the running call is about to append (the process crashed, or the append   *)
(* failed, after add_if_new committed it) is not written to the sink by any  *)
(* later step and never becomes a row to append again.                       *)
C25_CommittedBeforeAppended ==
    [][ /\ SinkKeys(sink) \subseteq TableKeys(dedupe)
        /\ SinkKeys(sink') \subseteq TableKeys(dedupe')
        /\ \A k \in (TableKeys(dedupe) \ SinkKeys(sink)) \ PendingKeys(pc, cb) :
              /\ k \in TableKeys(dedupe')
              /\ k \notin SinkKeys(sink')
              /\ k \notin PendingKeys(pc', cb') ]_vars

\* the store has the key of a record of the page that was crawled again
\* after a crash, and the sink has no record of that key
C25_Witness ==
    /\ pc = "update"
    /\ faults = 1
    /\ cb.extracts # <<>>
    /\ \E i \in 1..Len(cb.extracts[1].cards) :
          LET k == dedupe_key(extract_cards(cb.extracts[1], cb.branche)[i])
          IN  k \in TableKeys(dedupe) /\ k \notin SinkKeys(sink)
    /\ result.steps = Len(cb.extracts)

-----------------------------------------------------------------------------
\* the sum of total_rows_inserted over the branches of a crawl state
TotalRows(st) ==
    Stat(st, BranchBau, "total_rows_inserted", 0) + Stat(st, BranchIT, "total_rows_inserted", 0)

(* C26: whenever the crawl state is written to the state file, the sum of    *)
(* total_rows_inserted over its branches is the number of records in the     *)
(* sink.                                                                     *)
C26_TotalRowsMatchSink ==
    [][ state_file' # state_file => TotalRows(LoadState(state_file')) = Len(sink') ]_vars

-----------------------------------------------------------------------------
(* C27: when crawl_branch has returned, every body it accepted was           *)
(* extracted: the body of the GET, and the body of every POST that differs   *)
(* from the page extracted before it, also the one of the last POST the step *)
(* budget allows.                                                            *)
C27_AcceptedBodiesExtracted ==
    pc = "update" =>
        /\ (cb.get_response.status_code # 0 /\ ~IsDenied(cb.get_response))
              => (cb.extracts # <<>> /\ cb.extracts[1] = cb.get_response.text)
        /\ \A i \in 1..Len(cb.posts) :
              (i <= Len(cb.extracts) /\ ~SameBody(cb.posts[i], cb.extracts[i]))
                 => (i + 1 <= Len(cb.extracts) /\ cb.extracts[i + 1] = cb.posts[i])

-----------------------------------------------------------------------------
(* C28: a GET or POST is attempted at most MAX_RETRIES times; an attempt     *)
(* that raises before the last one changes neither the controller nor the    *)
(* crawl state nor the result and is followed by another attempt; a network  *)
(* error is returned only by the failure of attempt MAX_RETRIES; an attempt  *)
(* that brings a response is classified by on_denied or on_success alone,    *)
(* and a call without a reported network error leaves error_count as it was. *)
C28_RetriesBeforeNetworkError ==
    [][ /\ (pc = "fetch") => cb.attempt \in 1..MAX_RETRIES
        /\ (pc = "fetch" /\ net_errors' = net_errors + 1 /\ cb.attempt < MAX_RETRIES) =>
              /\ pc' = "fetch"
              /\ cb'.attempt = cb.attempt + 1
              /\ cb'.method = cb.method
              /\ cb'.on_error_calls = cb.on_error_calls
              /\ backoff' = backoff
              /\ state' = state
              /\ result' = result
        /\ (pc = "fetch" /\ pc' = "update" /\ Get(result', "transient_error", FALSE)) =>
              /\ cb.attempt = MAX_RETRIES
              /\ net_errors' = net_errors + 1
        /\ (pc = "fetch" /\ net_errors' = net_errors /\ cb' # NoCall) =>
              /\ cb'.on_error_calls = cb.on_error_calls
              /\ backoff'.error_streak = 0
              /\ \/ backoff' = on_success(backoff) /\ cb'.on_denied_calls = cb.on_denied_calls
                 \/ /\ backoff' = on_denied(backoff).backoff
                    /\ pc' = "update" /\ result'.access_denied
        /\ (pc = "update" /\ cb.on_error_calls = 0) =>
              /\ ~Get(result, "transient_error", FALSE)
              /\ Stat(state', cb.branche, "error_count", 0)
                    = Stat(state, cb.branche, "error_count", 0)
              /\ ~result.access_denied =>
                    Stat(state', cb.branche, "next_allowed_at", <<>>) = None
      ]_vars

\* the GET raised twice and brought the listing at its third attempt
C28_Witness ==
    /\ pc = "update"
    /\ cb.method = "GET"
    /\ cb.requests = MAX_RETRIES
    /\ net_errors = MAX_RETRIES - 1
    /\ cb.get_response = [status_code |-> 200, text |-> PageLast]
    /\ cb.on_error_calls = 0
    /\ backoff = NewBackoff
    /\ result = ResultDone(cb)
    /\ result.inserted = 1

-----------------------------------------------------------------------------
\* the ticks a branch has yet to cool down at time t
CoolingLeft(branche, t) ==
    IF Cooling(branche, t)
    THEN FromIsoFormat(Stat(state, branche, "next_allowed_at", None)) - t
    ELSE 0

\* a pass that found ratings, and neither raised nor was killed
QuietPass ==
    /\ pc = "loop"
    /\ passes' = passes + 1
    /\ faults' = faults
    /\ RatingsNow # <<>>

-----------------------------------------------------------------------------
(* The crawls of several passes and processes on listing pages with cards    *)
(* that have no detail link, no street node and no place node, or only       *)
(* whitespace in them.                                                       *)
CardBlank  == Card(None, None, None)
CardSpaces == Card(<<" ">>, <<>>, <<" ", " ">>)
PageBlank    == Body(<<CardBlank, CardAcme>>, TRUE, TRUE, FALSE)
PageBlankToo == Body(<<CardSpaces, CardOther>>, FALSE, TRUE, FALSE)

BlankResponses ==
    { [status_code |-> 200, text |-> PageBlank],
      [status_code |-> 200, text |-> PageBlankToo] }

NextBlank ==
    \/ Startup
    \/ Cycle(MaxSinkCrawls)
    \/ BeforeGet
    \/ FetchAttempt(BlankResponses, FewTicks)
    \/ Extract
    \/ AppendRows(NoClient)
    \/ CrawlRaises
    \/ UpdateState
    \/ Kill

SpecBlank == InitSink /\ [][NextBlank]_vars

\* the key built from two empty parts
BlankKey == <<"|">>

\* a row without name, street and zip_city
IsBlank(row) == row.name = None /\ row.street = None /\ row.zip_city = None

(* C30: every extracted row without name, street and zip_city has the key    *)
(* "|"; over all crawls, branches and processes the dedupe store holds at    *)
(* most one row of that key and the sink at most one record without name,    *)
(* street and zip_city; the rows a call is about to append hold one only     *)
(* while the sink has none.                                                  *)
C30_OneBlankRecord ==
    /\ \A resp \in BlankResponses : \A b \in {BranchBau, BranchIT} :
          LET rows == extract_cards(resp.text, b)
          IN  \A i \in 1..Len(rows) : IsBlank(rows[i]) <=> dedupe_key(rows[i]) = BlankKey
    /\ Cardinality({r \in dedupe : r.dedupe_key = BlankKey}) <= 1
    /\ Cardinality({i \in 1..Len(sink) : IsBlank(sink[i])}) <= 1
    /\ (pc = "append") =>
          Cardinality({i \in 1..Len(sink) : IsBlank(sink[i])}
                        \cup {-i : i \in {j \in 1..Len(cb.new_rows) : IsBlank(cb.new_rows[j])}})
             <= 1

\* a second branch listed a card of whitespace after the first branch's card
\* without nodes was written: nothing of its page was new but the other card
C30_Witness ==
    /\ pc = "update"
    /\ cb.extracts = <<PageBlankToo>>
    /\ \E i \in 1..Len(sink) : IsBlank(sink[i]) /\ sink[i].branche # cb.branche
    /\ Cardinality({i \in 1..Len(sink) : IsBlank(sink[i])}) = 1
    /\ result.inserted = 1
    /\ Len(sink) = 3

=============================================================================
